---- MODULE Spec2Model ----
(***************************************************************************)
(* A model of the Brainfuck interpreter of src/main.rs: the BFInterpreter  *)
(* struct, BFInterpreter::new, run, init, the six instruction handlers,    *)
(* jump and get_loop_end.                                                  *)
(*                                                                         *)
(* An interpreter is a record holding the fields of the struct plus the    *)
(* position of run() (pc), the panic message when run() has panicked, the  *)
(* String run() returned and the number of read_line calls of the run.     *)
(* Characters of a source are one-character strings; characters of the     *)
(* output and of the input are code points.                                *)
(***************************************************************************)
EXTENDS Integers, Sequences, FiniteSets, TLC

\* ------------------------------------------------------------------ bounds

\* Sources of every length up to MaxLen over the active symbols are run.
MaxLen == 3
\* The small tape: tapes of 0 and of MaxTape cells are explored beside those
\* of 1024 and 100 cells.
MaxTape == 2
\* The repetition counts of the `+^a>+^b<[>.<-]` and `+^n[-]` families are
\* 1..MaxCount and 255.
MaxCount == 2
\* read_line calls are counted up to MaxReads per run, and read_line fails
\* only while fewer were made.
MaxReads == 2
\* Runs are followed until the output holds MaxOutput characters.
MaxOutput == 256

\* ------------------------------------------------------- program constants

\* u8: the cell type (data: Vec<u8>).
U8Modulus == 256
\* usize::MAX of data_pointer.  TLC's integers end at 2^31 - 1, so the model
\* takes a 31-bit usize: all that is used of it is that it is beyond every
\* tape and program length and that adding one to it overflows.
UsizeMax == 2147483647
\* tape_size: None => 1024
DefaultTapeSize == 1024
\* main's custom_interpreter: tape_size: Some(100)
MainTapeSize == 100

\* --------------------------------------------------------------- Option<T>

None == <<>>
Some(v) == <<v>>
IsNone(o) == Len(o) = 0
Unwrap(o) == o[1]

\* ------------------------------------------------------------- Instruction

Instruction ==
    {"PointerInc", "PointerDec", "ByteInc", "ByteDec",
     "Output", "Input", "OpenLoop", "CloseLoop"}

StackItem(i) == [index |-> i]

\* HashMap::from([...]) of BFInterpreter::new
DefaultInstructions ==
    [c \in {">", "<", "+", "-", ".", ",", "[", "]"} |->
        CASE c = ">" -> "PointerInc"
          [] c = "<" -> "PointerDec"
          [] c = "+" -> "ByteInc"
          [] c = "-" -> "ByteDec"
          [] c = "." -> "Output"
          [] c = "," -> "Input"
          [] c = "[" -> "OpenLoop"
          [] c = "]" -> "CloseLoop"]

\* custom_map of main
CustomMap ==
    [c \in {"D", "A", "W", "S", "O", "I", "(", ")"} |->
        CASE c = "D" -> "PointerInc"
          [] c = "A" -> "PointerDec"
          [] c = "W" -> "ByteInc"
          [] c = "S" -> "ByteDec"
          [] c = "O" -> "Output"
          [] c = "I" -> "Input"
          [] c = "(" -> "OpenLoop"
          [] c = ")" -> "CloseLoop"]

\* A caller-supplied map that re-binds the default symbols and leaves
\* Input and the pointer moves unbound.
SwappedMap ==
    [c \in {"+", "-", "[", "]", "<"} |->
        CASE c = "+" -> "ByteDec"
          [] c = "-" -> "ByteInc"
          [] c = "[" -> "OpenLoop"
          [] c = "]" -> "CloseLoop"
          [] c = "<" -> "Output"]

\* ------------------------------------------------------------ Vec helpers

\* vec![0; n]
Zeros(n) == [i \in 1..n |-> 0]

\* Vec::get(i): Some(v) or None; indices are 0-based
Get(v, i) == IF i < Len(v) THEN Some(v[i + 1]) ELSE None

\* v[i] = x for an index in range
Set(v, i, x) == [v EXCEPT ![i + 1] = x]

\* iter().filter(|i| *i == x).count()
Count(v, x) == Cardinality({i \in 1..Len(v) : v[i] = x})

\* ------------------------------------------------------------ construction

\* BFInterpreter::new(config); overflow checks are a property of the build
\* profile (on in dev, off in release), carried by the interpreter.
new(config, checks) ==
    LET tape_size == IF IsNone(config) THEN None ELSE Unwrap(config).tape_size
        custom_instructions ==
            IF IsNone(config) THEN None ELSE Unwrap(config).custom_instructions
    IN  [instruction_pointer |-> 0,
         instructions_map |->
            IF IsNone(custom_instructions) THEN DefaultInstructions
            ELSE Unwrap(custom_instructions),
         instructions |-> <<>>,
         current_instruction |-> "Output",
         data_pointer |-> 0,
         data |-> Zeros(IF IsNone(tape_size) THEN DefaultTapeSize
                        ELSE Unwrap(tape_size)),
         loop_stack |-> <<>>,
         output |-> <<>>,
         overflow_checks |-> checks,
         pc |-> "idle",
         panic |-> "",
         result |-> None,
         reads |-> 0]

\* panic!(msg), or a panic of the standard library: run() is left at once.
Panic(m, msg) == [m EXCEPT !.pc = "panicked", !.panic = msg]

\* ------------------------------------------------------------------- init

\* A slip: the default symbols are looked up, not the map of the interpreter.
LookupDefault(map, c) ==
    IF c \in DOMAIN DefaultInstructions THEN Some(DefaultInstructions[c])
    ELSE None

\* self.instructions_map.get(&c)
Lookup(map, c) == IF c \in DOMAIN map THEN Some(map[c]) ELSE None

\* A slip: characters without an entry are skipped (a comment-tolerant
\* loader), not refused.
DecodeSkip(map, src) ==
    LET kept == SelectSeq(src, LAMBDA c : ~IsNone(Lookup(map, c)))
    IN  Some([i \in 1..Len(kept) |-> Unwrap(Lookup(map, kept[i]))])

\* instructions.chars().map(|c| match ... ).collect(): None when some
\* character has no entry in the map (the closure panics).
Decode(map, src) ==
    IF \E i \in 1..Len(src) : IsNone(Lookup(map, src[i])) THEN None
    ELSE Some([i \in 1..Len(src) |-> Unwrap(Lookup(map, src[i]))])

\* A slip: the tape is not cleared between runs.
KeepData(data) == data

\* self.data = vec![0; self.data.len()]
ResetData(data) == Zeros(Len(data))

\* A slip: the data pointer is not reset between runs.
init_keep_pointer(m, src) ==
    LET m0 == [m EXCEPT !.instruction_pointer = 0]
        decoded == Decode(m.instructions_map, src)
    IN  IF IsNone(decoded) THEN Panic(m0, "Invalid instruction")
        ELSE [m0 EXCEPT !.instructions = Unwrap(decoded),
                        !.data = ResetData(m.data),
                        !.loop_stack = <<>>,
                        !.output = <<>>,
                        !.pc = "loaded"]

\* BFInterpreter::init.  The instruction pointer is reset first; a panic of
\* the decoding leaves every other field as the last run left it.
init(m, src) ==
    LET m0 == [m EXCEPT !.instruction_pointer = 0]
        decoded == Decode(m.instructions_map, src)
    IN  IF IsNone(decoded) THEN Panic(m0, "Invalid instruction")
        ELSE [m0 EXCEPT !.instructions = Unwrap(decoded),
                        !.data_pointer = 0,
                        !.data = ResetData(m.data),
                        !.loop_stack = <<>>,
                        !.output = <<>>,
                        !.pc = "loaded"]

\* The entry of run(): a new call, no read_line yet, nothing returned yet,
\* then self.init(instructions).
run_init(m, src) == init([m EXCEPT !.reads = 0, !.result = None], src)

\* A slip: only a surplus of closing brackets is refused.
run_check_surplus(m) ==
    LET closing_brackets == Count(m.instructions, "CloseLoop")
        opening_brackets == Count(m.instructions, "OpenLoop")
    IN  IF m.pc # "loaded" THEN m
        ELSE IF closing_brackets > opening_brackets
        THEN Panic(m, "Unbalanced brackets")
        ELSE [m EXCEPT !.pc = "running"]

\* The bracket count of run().
run_check(m) ==
    LET closing_brackets == Count(m.instructions, "CloseLoop")
        opening_brackets == Count(m.instructions, "OpenLoop")
    IN  IF m.pc # "loaded" THEN m
        ELSE IF closing_brackets # opening_brackets
        THEN Panic(m, "Unbalanced brackets")
        ELSE [m EXCEPT !.pc = "running"]

\* ------------------------------------------------------------- arithmetic

\* x + 1 and x - 1 on an unsigned type with the given largest value: with
\* overflow checks the overflowing operation panics (None), without them it
\* wraps.
AddOne(x, max, checks) ==
    IF x = max THEN (IF checks THEN None ELSE Some(0)) ELSE Some(x + 1)

SubOne(x, max, checks) ==
    IF x = 0 THEN (IF checks THEN None ELSE Some(max)) ELSE Some(x - 1)

\* c as u8, for a char c given by its code point
CharAsU8(c) == c % U8Modulus

\* v as char, for a u8 v: the character with code point v
U8AsChar(v) == v

\* ---------------------------------------------------------------- handlers

pointer_inc(m) ==
    LET r == AddOne(m.data_pointer, UsizeMax, m.overflow_checks)
    IN  IF IsNone(r) THEN Panic(m, "attempt to add with overflow")
        ELSE [m EXCEPT !.data_pointer = Unwrap(r)]

pointer_dec(m) ==
    LET r == SubOne(m.data_pointer, UsizeMax, m.overflow_checks)
    IN  IF IsNone(r) THEN Panic(m, "attempt to subtract with overflow")
        ELSE [m EXCEPT !.data_pointer = Unwrap(r)]

\* A slip: ByteInc past the end of the tape pushes a cell holding 1.
byte_inc_grow(m) ==
    LET cell == Get(m.data, m.data_pointer)
    IN  IF IsNone(cell) THEN [m EXCEPT !.data = Append(@, 1)]
        ELSE LET r == AddOne(Unwrap(cell), U8Modulus - 1, m.overflow_checks)
             IN  IF IsNone(r) THEN Panic(m, "attempt to add with overflow")
                 ELSE [m EXCEPT !.data = Set(@, m.data_pointer, Unwrap(r))]

byte_inc(m) ==
    LET cell == Get(m.data, m.data_pointer)
    IN  IF IsNone(cell) THEN Panic(m, "index out of bounds")
        ELSE LET r == AddOne(Unwrap(cell), U8Modulus - 1, m.overflow_checks)
             IN  IF IsNone(r) THEN Panic(m, "attempt to add with overflow")
                 ELSE [m EXCEPT !.data = Set(@, m.data_pointer, Unwrap(r))]

byte_dec(m) ==
    LET cell == Get(m.data, m.data_pointer)
    IN  IF IsNone(cell) THEN Panic(m, "index out of bounds")
        ELSE LET r == SubOne(Unwrap(cell), U8Modulus - 1, m.overflow_checks)
             IN  IF IsNone(r) THEN Panic(m, "attempt to subtract with overflow")
                 ELSE [m EXCEPT !.data = Set(@, m.data_pointer, Unwrap(r))]

\* A slip: the pointer is pushed, not the cell it selects.
output_pointer(m) ==
    LET cell == Get(m.data, m.data_pointer)
    IN  IF IsNone(cell) THEN Panic(m, "index out of bounds")
        ELSE [m EXCEPT !.output = Append(@, U8AsChar(m.data_pointer % U8Modulus))]

\* A slip: the character is put in front of the output.
output_front(m) ==
    LET cell == Get(m.data, m.data_pointer)
    IN  IF IsNone(cell) THEN Panic(m, "index out of bounds")
        ELSE [m EXCEPT !.output = <<U8AsChar(Unwrap(cell))>> \o @]

\* self.output.push(self.data[self.data_pointer] as char)
output(m) ==
    LET cell == Get(m.data, m.data_pointer)
    IN  IF IsNone(cell) THEN Panic(m, "index out of bounds")
        ELSE [m EXCEPT !.output = Append(@, U8AsChar(Unwrap(cell)))]

\* One read_line call of input().  rd is what read_line gave: Err, or Ok
\* with the line read (empty at the end of the input).  Err calls input()
\* again: the interpreter stays at the instruction (retry is TRUE).
input(m, rd) ==
    LET m1 == [m EXCEPT !.reads = IF @ < MaxReads THEN @ + 1 ELSE @]
    IN  IF rd.kind = "Err" THEN [next |-> m1, retry |-> TRUE]
        ELSE IF rd.line = <<>>
        THEN [next |-> Panic(m1, "called Option::unwrap() on a None value"),
              retry |-> FALSE]
        ELSE IF IsNone(Get(m.data, m.data_pointer))
        THEN [next |-> Panic(m1, "index out of bounds"), retry |-> FALSE]
        ELSE [next |-> [m1 EXCEPT !.data =
                            Set(@, m.data_pointer, CharAsU8(rd.line[1]))],
              retry |-> FALSE]

\* The scan of get_loop_end from `pointer` with `loopdepth` levels open:
\* the position reached, or None when instructions[pointer] is out of range.
RECURSIVE ScanLoopEnd(_, _, _)
ScanLoopEnd(instructions, pointer, loopdepth) ==
    IF loopdepth > 0
    THEN LET p == pointer + 1
             i == Get(instructions, p)
         IN  IF IsNone(i) THEN None
             ELSE ScanLoopEnd(instructions, p,
                    CASE Unwrap(i) = "OpenLoop" -> loopdepth + 1
                      [] Unwrap(i) = "CloseLoop" -> loopdepth - 1
                      [] OTHER -> loopdepth)
    ELSE Some(pointer)

\* A slip: the position after the closing bracket is returned.
get_loop_end_past(m) ==
    LET end == ScanLoopEnd(m.instructions, m.instruction_pointer,
                           Len(m.loop_stack))
    IN  IF IsNone(end) THEN None ELSE Some(Unwrap(end) + 1)

get_loop_end(m) ==
    ScanLoopEnd(m.instructions, m.instruction_pointer, Len(m.loop_stack))

\* Vec::last()
Last(v) == IF v = <<>> THEN None ELSE Some(v[Len(v)])

\* A slip: CloseLoop never goes back, so a loop body runs at most once.
jump_once(m) ==
    LET cell == Get(m.data, m.data_pointer)
    IN  CASE m.current_instruction = "CloseLoop" ->
                IF IsNone(cell) THEN Panic(m, "index out of bounds") ELSE m
          [] m.current_instruction = "OpenLoop" ->
                IF IsNone(cell) THEN Panic(m, "index out of bounds")
                ELSE IF Unwrap(cell) = 0
                THEN LET end == get_loop_end(m)
                     IN  IF IsNone(end) THEN Panic(m, "index out of bounds")
                         ELSE [m EXCEPT !.instruction_pointer = Unwrap(end)]
                ELSE [m EXCEPT !.loop_stack =
                                    Append(@, StackItem(m.instruction_pointer))]
          [] OTHER -> Panic(m, "SHOULD NOT HAVE JUMPED")

\* A slip: CloseLoop on a nonzero cell with nothing on the loop stack goes
\* on, as on a zero cell.
jump_lenient(m) ==
    LET cell == Get(m.data, m.data_pointer)
    IN  CASE m.current_instruction = "CloseLoop" ->
                IF IsNone(cell) THEN Panic(m, "index out of bounds")
                ELSE IF Unwrap(cell) = 0 \/ IsNone(Last(m.loop_stack)) THEN m
                ELSE [m EXCEPT !.instruction_pointer =
                                    Unwrap(Last(m.loop_stack)).index]
          [] m.current_instruction = "OpenLoop" ->
                IF IsNone(cell) THEN Panic(m, "index out of bounds")
                ELSE IF Unwrap(cell) = 0
                THEN LET end == get_loop_end(m)
                     IN  IF IsNone(end) THEN Panic(m, "index out of bounds")
                         ELSE [m EXCEPT !.instruction_pointer = Unwrap(end)]
                ELSE [m EXCEPT !.loop_stack =
                                    Append(@, StackItem(m.instruction_pointer))]
          [] OTHER -> Panic(m, "SHOULD NOT HAVE JUMPED")

\* A slip: CloseLoop on a zero cell pops the loop stack.
jump_pop(m) ==
    LET cell == Get(m.data, m.data_pointer)
    IN  CASE m.current_instruction = "CloseLoop" ->
                IF IsNone(cell) THEN Panic(m, "index out of bounds")
                ELSE IF Unwrap(cell) = 0
                THEN [m EXCEPT !.loop_stack =
                        IF @ = <<>> THEN @ ELSE SubSeq(@, 1, Len(@) - 1)]
                ELSE IF IsNone(Last(m.loop_stack))
                THEN Panic(m, "called Option::unwrap() on a None value")
                ELSE [m EXCEPT !.instruction_pointer =
                                    Unwrap(Last(m.loop_stack)).index]
          [] m.current_instruction = "OpenLoop" ->
                IF IsNone(cell) THEN Panic(m, "index out of bounds")
                ELSE IF Unwrap(cell) = 0
                THEN LET end == get_loop_end(m)
                     IN  IF IsNone(end) THEN Panic(m, "index out of bounds")
                         ELSE [m EXCEPT !.instruction_pointer = Unwrap(end)]
                ELSE [m EXCEPT !.loop_stack =
                                    Append(@, StackItem(m.instruction_pointer))]
          [] OTHER -> Panic(m, "SHOULD NOT HAVE JUMPED")

jump(m) ==
    LET cell == Get(m.data, m.data_pointer)
    IN  CASE m.current_instruction = "CloseLoop" ->
                IF IsNone(cell) THEN Panic(m, "index out of bounds")
                ELSE IF Unwrap(cell) = 0 THEN m
                ELSE IF IsNone(Last(m.loop_stack))
                THEN Panic(m, "called Option::unwrap() on a None value")
                ELSE [m EXCEPT !.instruction_pointer =
                                    Unwrap(Last(m.loop_stack)).index]
          [] m.current_instruction = "OpenLoop" ->
                IF IsNone(cell) THEN Panic(m, "index out of bounds")
                ELSE IF Unwrap(cell) = 0
                THEN LET end == get_loop_end(m)
                     IN  IF IsNone(end) THEN Panic(m, "index out of bounds")
                         ELSE [m EXCEPT !.instruction_pointer = Unwrap(end)]
                ELSE [m EXCEPT !.loop_stack =
                                    Append(@, StackItem(m.instruction_pointer))]
          [] OTHER -> Panic(m, "SHOULD NOT HAVE JUMPED")

\* ------------------------------------------------------------- the run loop

\* while self.instruction_pointer < self.instructions.len()
Running(m) ==
    m.pc = "running" /\ m.instruction_pointer < Len(m.instructions)

\* self.instructions[self.instruction_pointer]
Fetch(m) == m.instructions[m.instruction_pointer + 1]

\* self.instruction_pointer += 1, unless the handler panicked
Advance(m) ==
    IF m.pc = "panicked" THEN m
    ELSE [m EXCEPT !.instruction_pointer = @ + 1]

\* One iteration of the loop of run(): current_instruction is set, the
\* handler of the fetched instruction runs, the instruction pointer
\* advances.  A failed read_line leaves the iteration unfinished.
Step(m, rd) ==
    IF ~Running(m) THEN m
    ELSE LET i == Fetch(m)
             m1 == [m EXCEPT !.current_instruction = i]
         IN  CASE i = "PointerInc" -> Advance(pointer_inc(m1))
               [] i = "PointerDec" -> Advance(pointer_dec(m1))
               [] i = "ByteInc" -> Advance(byte_inc(m1))
               [] i = "ByteDec" -> Advance(byte_dec(m1))
               [] i = "Output" -> Advance(output(m1))
               [] i = "Input" ->
                    LET r == input(m1, rd)
                    IN  IF r.retry THEN r.next ELSE Advance(r.next)
               [] i = "OpenLoop" -> Advance(jump(m1))
               [] i = "CloseLoop" -> Advance(jump(m1))

\* self.output.iter().collect(), once the loop has ended
run_return(m) ==
    IF m.pc = "running" /\ ~Running(m)
    THEN [m EXCEPT !.pc = "returned", !.result = Some(m.output)]
    ELSE m

\* ------------------------------------------- standard loop semantics

\* The reference the loop handling is compared with: an interpreter in
\* which OpenLoop on a zero cell continues after the CloseLoop that
\* structurally matches it and CloseLoop on a nonzero cell continues after
\* the matching OpenLoop.  Positions are 0-based, as instruction_pointer.

\* The positions of the brackets of ops.
Brackets(ops) ==
    {k \in 0..(Len(ops) - 1) : ops[k + 1] \in {"OpenLoop", "CloseLoop"}}

\* OpenLoops minus CloseLoops among the positions i..j, B being the
\* positions of the brackets.
Depth(ops, B, i, j) ==
    Cardinality({k \in B : i <= k /\ k <= j /\ ops[k + 1] = "OpenLoop"})
    - Cardinality({k \in B : i <= k /\ k <= j /\ ops[k + 1] = "CloseLoop"})

\* No prefix closes more loops than it opened, and none stays open.
ProperlyNested(ops) ==
    LET B == Brackets(ops)
    IN  /\ \A j \in B : Depth(ops, B, 0, j) >= 0
        /\ Depth(ops, B, 0, Len(ops) - 1) = 0

\* The position of the CloseLoop matching the OpenLoop at position i.
MatchClose(ops, i) ==
    LET B == Brackets(ops)
    IN  CHOOSE j \in B :
            /\ j >= i
            /\ Depth(ops, B, i, j) = 0
            /\ \A k \in B : i <= k /\ k < j => Depth(ops, B, i, k) > 0

\* The position of the OpenLoop matching the CloseLoop at position j.
MatchOpen(ops, j) ==
    LET B == Brackets(ops)
    IN  CHOOSE i \in B :
            /\ i <= j
            /\ Depth(ops, B, i, j) = 0
            /\ \A k \in B : i < k /\ k <= j => Depth(ops, B, k, j) < 0

\* The reference at the start of a run of `ops` (None: the source does not
\* decode) on a tape of n cells.  ok: the brackets are properly nested, the
\* program holds no Input and, so far, every tape access was in range.
RefInit(ops, n) ==
    [instructions |-> IF IsNone(ops) THEN <<>> ELSE Unwrap(ops),
     instruction_pointer |-> 0,
     data_pointer |-> 0,
     data |-> Zeros(n),
     output |-> <<>>,
     ok |-> IF IsNone(ops) THEN FALSE
            ELSE /\ ProperlyNested(Unwrap(ops))
                 /\ \A k \in 1..Len(Unwrap(ops)) : Unwrap(ops)[k] # "Input"]

RefDone(r) == r.ok /\ r.instruction_pointer >= Len(r.instructions)

RefStep(r) ==
    IF ~r.ok \/ RefDone(r) THEN r
    ELSE LET i == r.instructions[r.instruction_pointer + 1]
             in_range == r.data_pointer < Len(r.data)
             cell == r.data[r.data_pointer + 1]
             next == [r EXCEPT !.instruction_pointer = @ + 1]
             fail == [r EXCEPT !.ok = FALSE]
         IN  CASE i = "PointerInc" -> [next EXCEPT !.data_pointer = @ + 1]
               [] i = "PointerDec" ->
                    IF r.data_pointer = 0 THEN fail
                    ELSE [next EXCEPT !.data_pointer = @ - 1]
               [] i = "Input" -> fail
               [] ~in_range -> fail
               [] i = "ByteInc" ->
                    [next EXCEPT !.data[r.data_pointer + 1] =
                                    (cell + 1) % U8Modulus]
               [] i = "ByteDec" ->
                    [next EXCEPT !.data[r.data_pointer + 1] =
                                    (cell + U8Modulus - 1) % U8Modulus]
               [] i = "Output" -> [next EXCEPT !.output = Append(@, cell)]
               [] i = "OpenLoop" ->
                    IF cell # 0 THEN next
                    ELSE [r EXCEPT !.instruction_pointer =
                            MatchClose(r.instructions, r.instruction_pointer) + 1]
               [] i = "CloseLoop" ->
                    IF cell = 0 THEN next
                    ELSE [r EXCEPT !.instruction_pointer =
                            MatchOpen(r.instructions, r.instruction_pointer) + 1]

\* --------------------------------------------------------- the environment

\* The configurations an interpreter is constructed with: None (main's
\* `interpreter`), main's custom_interpreter, small tapes with the default
\* instructions, and a small tape with SwappedMap.
Config(tape_size, custom_instructions) ==
    Some([tape_size |-> tape_size, custom_instructions |-> custom_instructions])

Configs ==
    {None, Config(Some(MainTapeSize), Some(CustomMap)),
     Config(Some(MaxTape), Some(SwappedMap))}
    \cup {Config(Some(t), None) : t \in {0, MaxTape}}

\* A character no instruction set binds.
Foreign == "?"

\* The symbol a map binds to an instruction.
SymbolOf(map, i) == CHOOSE c \in DOMAIN map : map[c] = i

Bound(map) == {map[c] : c \in DOMAIN map}

\* The source that decodes to the instructions `ops` under `map`.
Encode(map, ops) == [k \in 1..Len(ops) |-> SymbolOf(map, ops[k])]

\* The source in the default symbols that decodes as `src` does under `map`;
\* a character `map` does not bind stays unbound.
Translate(map, src) ==
    [k \in 1..Len(src) |->
        IF src[k] \in DOMAIN map
        THEN SymbolOf(DefaultInstructions, map[src[k]]) ELSE Foreign]

Rep(x, n) == [k \in 1..n |-> x]

\* +^a > +^b < [ > . < - ]
Hearts(a, b) ==
    Rep("ByteInc", a) \o <<"PointerInc">> \o Rep("ByteInc", b)
    \o <<"PointerDec", "OpenLoop", "PointerInc", "Output", "PointerDec",
         "ByteDec", "CloseLoop">>

\* +^n [ - ]
Clear(n) == Rep("ByteInc", n) \o <<"OpenLoop", "ByteDec", "CloseLoop">>

Counts == (1..MaxCount) \cup {U8Modulus - 1}

\* Programs with nested loops and with loops in sequence, in the default
\* symbols.
Nested ==
    { <<"+", "[", "[", "-", "]", "]">>,
      <<"+", "[", "-", "]", "[", "-", "]">>,
      <<"+", "[", "-", "]", "+", "[", "-", "]", "[", "-", "]">>,
      <<"+", "+", "[", ">", "+", "[", "-", "]", "<", "-", "]">>,
      <<"+", "[", ">", "+", "[", "-", "]", "<", "-", "]", ".">> }

\* The Hello World source of main.
HelloWorld ==
    <<"+", "+", "+", "+", "+", "+", "+", "+", "+", "+", "[", ">", "+", "+",
      "+", "+", "+", "+", "+", ">", "+", "+", "+", "+", "+", "+", "+", "+",
      "+", "+", ">", "+", "+", "+", ">", "+", "<", "<", "<", "<", "-", "]",
      ">", "+", "+", ".", ">", "+", ".", "+", "+", "+", "+", "+", "+", "+",
      ".", ".", "+", "+", "+", ".", ">", "+", "+", ".", "<", "<", "+", "+",
      "+", "+", "+", "+", "+", "+", "+", "+", "+", "+", "+", "+", "+", ".",
      ">", ".", "+", "+", "+", ".", "-", "-", "-", "-", "-", "-", ".", "-",
      "-", "-", "-", "-", "-", "-", "-", ".", ">", "+", ".", ">", ".">>

\* The loop programs with the given repetition counts.
LoopPrograms(counts) ==
    {Hearts(a, b) : a \in counts, b \in counts} \cup {Clear(n) : n \in counts}

\* Every source of at most n characters over the bound symbols and one
\* unbound character.
ShortSources(map, n) ==
    UNION {[1..k -> DOMAIN map \cup {Foreign}] : k \in 0..n}

\* The programs of `progs` (in the default symbols) that `map` can spell.
Spell(map, progs) ==
    LET ops(s) == Unwrap(Decode(DefaultInstructions, s))
    IN  {Encode(map, ops(s)) : s \in {t \in progs :
            \A k \in 1..Len(t) : DefaultInstructions[t[k]] \in Bound(map)}}

TapeSize(cfg) ==
    IF IsNone(cfg) \/ IsNone(Unwrap(cfg).tape_size) THEN DefaultTapeSize
    ELSE Unwrap(Unwrap(cfg).tape_size)

\* The sources the caller passes to the first run() of an interpreter:
\*   every short source: up to MaxLen characters on a tape of at most
\*     MaxTape cells, one character less on an empty tape, one character on
\*     the tapes of main;
\*   the loop programs, with counts up to 255 on the default configuration
\*     and up to MaxCount elsewhere; main's +++>+++<[>.<-]; the nested
\*     programs; Hello World on the default configuration.
\* Corpus "loops" keeps the loop programs alone.
FirstSources(cfg, map, corpus) ==
    LET n == TapeSize(cfg)
        short == ShortSources(map, IF n > MaxTape THEN 1
                                   ELSE IF n = 0 THEN MaxLen - 1 ELSE MaxLen)
        loops == {Encode(DefaultInstructions, p) :
                    p \in LoopPrograms(IF IsNone(cfg) THEN Counts
                                       ELSE 1..MaxCount) \cup {Hearts(3, 3)}}
        hello == IF IsNone(cfg) THEN {HelloWorld} ELSE {}
    IN  IF corpus = "loops" THEN Spell(map, loops)
        ELSE short \cup Spell(map, loops \cup Nested \cup hello)

\* The sources the caller passes to an interpreter that has run before.
AgainSources(cfg, map, corpus) ==
    IF corpus = "loops" THEN FirstSources(cfg, map, corpus)
    ELSE ShortSources(map, 1)
         \cup Spell(map, {Encode(DefaultInstructions, Hearts(1, 2))})

Sources(m, cfg, corpus) ==
    IF m.pc = "idle" THEN FirstSources(cfg, m.instructions_map, corpus)
    ELSE AgainSources(cfg, m.instructions_map, corpus)

\* What read_line gives: Err, or Ok with the line read, ended by its line
\* feed; the empty line is the end of the input.
ReadResults ==
    {[kind |-> "Err", line |-> <<>>]}
    \cup {[kind |-> "Ok", line |-> l] :
            l \in {<<>>, <<10>>, <<65, 10>>, <<8364, 10>>}}

\* ------------------------------------------------------------------- state

VARIABLES
    interpreter,  \* the interpreter the caller constructed and runs
    source,       \* the argument of its current (or last) run()
    config,       \* the configuration it was constructed with
    corpus,       \* which sources the caller passes
    fresh,        \* an interpreter constructed with the same configuration
                  \* at each run() and given the same source
    twin,         \* an interpreter with the default instructions and the
                  \* same tape size, given the same programs in the default
                  \* symbols
    reference     \* the reference of standard loop semantics, given the
                  \* same program and stepped with the interpreter

vars == <<interpreter, source, config, corpus, fresh, twin, reference>>

\* The configuration of the twin: the same tape size, the default symbols.
TwinConfig(c) ==
    IF IsNone(c) THEN None ELSE Config(Unwrap(c).tape_size, None)

InitWith(cfgs, corp) ==
    /\ config \in cfgs
    /\ corpus = corp
    /\ source = <<>>
    /\ reference = RefInit(None, 0)
    /\ \E checks \in BOOLEAN :
        /\ interpreter = new(config, checks)
        /\ fresh = new(config, checks)
        /\ twin = new(TwinConfig(config), checks)

Init == InitWith(Configs, "all")

\* ----------------------------------------------------------------- actions

\* The caller calls run(src) on an interpreter that is not running; run()
\* starts with init().
Run ==
    /\ interpreter.pc \in {"idle", "returned"}
    /\ \E src \in Sources(interpreter, config, corpus) :
        /\ source' = src
        /\ interpreter' = run_init(interpreter, src)
        /\ fresh' = run_init(new(config, interpreter.overflow_checks), src)
        /\ twin' = run_init(twin, Translate(interpreter.instructions_map, src))
        /\ reference' = RefInit(Decode(interpreter.instructions_map, src),
                                Len(interpreter.data))
    /\ UNCHANGED <<config, corpus>>

CheckBrackets ==
    /\ interpreter.pc = "loaded"
    /\ interpreter' = run_check(interpreter)
    /\ fresh' = run_check(fresh)
    /\ twin' = run_check(twin)
    /\ UNCHANGED <<source, config, corpus, reference>>

\* The loop of run() is at instruction i.
At(i) == Running(interpreter) /\ Fetch(interpreter) = i

\* One iteration of the loop of run(); rd is what read_line gives, used by
\* Input only.
Exec(rd) ==
    /\ interpreter' = Step(interpreter, rd)
    /\ fresh' = Step(fresh, rd)
    /\ twin' = Step(twin, rd)
    /\ reference' = RefStep(reference)
    /\ UNCHANGED <<source, config, corpus>>

NoRead == [kind |-> "Err", line |-> <<>>]

DoPointerInc ==
    /\ At("PointerInc")
    /\ Exec(NoRead)

DoPointerDec ==
    /\ At("PointerDec")
    /\ Exec(NoRead)

DoByteInc ==
    /\ At("ByteInc")
    /\ Exec(NoRead)

DoByteDec ==
    /\ At("ByteDec")
    /\ Exec(NoRead)

DoOutput ==
    /\ At("Output")
    /\ Len(interpreter.output) < MaxOutput
    /\ Exec(NoRead)

DoInput ==
    /\ At("Input")
    /\ \E rd \in ReadResults :
        /\ rd.kind = "Err" => interpreter.reads < MaxReads
        /\ Exec(rd)

DoOpenLoop ==
    /\ At("OpenLoop")
    /\ Exec(NoRead)

DoCloseLoop ==
    /\ At("CloseLoop")
    /\ Exec(NoRead)

Return ==
    /\ interpreter.pc = "running"
    /\ ~Running(interpreter)
    /\ interpreter' = run_return(interpreter)
    /\ fresh' = run_return(fresh)
    /\ twin' = run_return(twin)
    /\ UNCHANGED <<source, config, corpus, reference>>

Next ==
    \/ Run
    \/ CheckBrackets
    \/ DoPointerInc
    \/ DoPointerDec
    \/ DoByteInc
    \/ DoByteDec
    \/ DoOutput
    \/ DoInput
    \/ DoOpenLoop
    \/ DoCloseLoop
    \/ Return

Spec == Init /\ [][Next]_vars

\* The loop programs alone, on the default configuration.  Actions of
\* instructions these programs do not hold are left out.
InitLoops == InitWith({None}, "loops")

NextLoops ==
    \/ Run
    \/ CheckBrackets
    \/ DoPointerInc
    \/ DoPointerDec
    \/ DoByteInc
    \/ DoByteDec
    \/ DoOutput
    \/ DoOpenLoop
    \/ DoCloseLoop
    \/ Return

\* The steps of run() after init().  run() is one synchronous call: once
\* entered it executes instruction after instruction until it returns or
\* panics, so a step that can be taken is taken.  That the caller calls
\* run() again is not assumed.
ProgressLoops ==
    \/ CheckBrackets
    \/ DoPointerInc
    \/ DoPointerDec
    \/ DoByteInc
    \/ DoByteDec
    \/ DoOutput
    \/ DoOpenLoop
    \/ DoCloseLoop
    \/ Return

SpecLoops == InitLoops /\ [][NextLoops]_vars /\ WF_vars(ProgressLoops)

\* ------------------------------------------------------------------ claims

\* The number of consecutive "+" of s from index i on.
Plusses(s, i) ==
    LET stops == {k \in i..Len(s) : s[k] # "+"}
    IN  IF stops = {} THEN Len(s) - i + 1
        ELSE (CHOOSE k \in stops : \A j \in stops : k <= j) - i

\* s is +^a > +^b < [ > . < - ] with a and b in 1..255; HeartsA and HeartsB
\* are a and b.
HeartsA(s) == Plusses(s, 1)

HeartsB(s) == Plusses(s, HeartsA(s) + 2)

IsHearts(s) ==
    LET a == HeartsA(s)
        b == HeartsB(s)
    IN  /\ a \in 1..255
        /\ Len(s) > a + 1
        /\ s[a + 1] = ">"
        /\ b \in 1..255
        /\ Len(s) = a + b + 8
        /\ SubSeq(s, a + b + 2, Len(s)) = <<"<", "[", ">", ".", "<", "-", "]">>

\* s is +^n [ - ] with n in 1..255
IsClear(s) ==
    LET n == Plusses(s, 1)
    IN  /\ n \in 1..255
        /\ Len(s) = n + 3
        /\ SubSeq(s, n + 1, Len(s)) = <<"[", "-", "]">>

DefaultConfigured ==
    /\ interpreter.instructions_map = DefaultInstructions
    /\ Len(interpreter.data) = DefaultTapeSize

HeartsRun == DefaultConfigured /\ interpreter.pc # "idle" /\ IsHearts(source)

ClearRun == interpreter.pc # "idle" /\ IsClear(source)

\* C1: with the default instructions and the default tape, run on
\* +^a>+^b<[>.<-] (a, b in 1..255) never panics, returns, and what it
\* returns is a times the character with code point b.
C1_HeartsReturnsCopies ==
    /\ [](HeartsRun => interpreter.pc # "panicked")
    /\ [](HeartsRun /\ interpreter.pc = "returned" =>
            interpreter.result = Some(Rep(HeartsB(source), HeartsA(source))))
    /\ ((HeartsRun /\ interpreter.pc = "loaded")
            ~> (HeartsRun /\ interpreter.pc = "returned"))

\* run("+++>+++<[>.<-]") has returned three characters of code point 3.
C1_Witness ==
    /\ HeartsRun
    /\ source = <<"+", "+", "+", ">", "+", "+", "+", "<",
                  "[", ">", ".", "<", "-", "]">>
    /\ interpreter.pc = "returned"
    /\ interpreter.result = Some(<<3, 3, 3>>)

\* C2: run on +^n[-] (n in 1..255) never panics and returns, with the
\* instruction pointer at the program length and the current cell at 0.
C2_ClearLoopTerminates ==
    /\ [](ClearRun => interpreter.pc # "panicked")
    /\ [](ClearRun /\ interpreter.pc = "returned" =>
            /\ interpreter.instruction_pointer = Len(interpreter.instructions)
            /\ Get(interpreter.data, interpreter.data_pointer) = Some(0))
    /\ ((ClearRun /\ interpreter.pc = "loaded")
            ~> (ClearRun /\ interpreter.pc = "returned"))

\* +^255[-] has returned: the loop body ran 255 times.
C2_Witness ==
    /\ ClearRun
    /\ Plusses(source, 1) = 255
    /\ interpreter.pc = "returned"
    /\ Get(interpreter.data, 0) = Some(0)
    /\ interpreter.loop_stack = <<StackItem(255)>>

\* The run of the interpreter has ended after it loaded its program.
RunEnded ==
    \/ interpreter.pc = "returned"
    \/ /\ interpreter.pc = "panicked"
       /\ interpreter.panic \notin {"Invalid instruction", "Unbalanced brackets"}

\* The run was ended by the overflow check of a cell or pointer operation
\* (the dev profile): a fault of the arithmetic, not of the loops.
OverflowPanic ==
    /\ interpreter.pc = "panicked"
    /\ interpreter.panic \in {"attempt to add with overflow",
                              "attempt to subtract with overflow"}

\* C3: for a program with properly nested brackets and no Input whose
\* reference run keeps every tape access in range, run ends as the
\* reference does: it returns, with the output and the tape of the
\* reference.  Runs ended by an overflow check are left aside, so that what
\* is compared is the handling of the loops.
C3_StandardLoopSemantics ==
    RunEnded /\ RefDone(reference) /\ ~OverflowPanic =>
        /\ interpreter.pc = "returned"
        /\ Unwrap(interpreter.result) = reference.output
        /\ interpreter.data = reference.data


\* Two interpreters agree on everything but their instruction sets.
SameRun(a, b) ==
    /\ a.instruction_pointer = b.instruction_pointer
    /\ a.instructions = b.instructions
    /\ a.current_instruction = b.current_instruction
    /\ a.data_pointer = b.data_pointer
    /\ a.data = b.data
    /\ a.loop_stack = b.loop_stack
    /\ a.output = b.output
    /\ a.pc = b.pc
    /\ a.panic = b.panic
    /\ a.result = b.result
    /\ a.reads = b.reads

\* C4: an interpreter with a custom instruction set, run on a source in its
\* symbols, is at every step in the state (instruction pointer, decoded
\* program, data pointer, tape, loop stack, output, result or panic) of an
\* interpreter with the default set run on the source that decodes to the
\* same instructions.
C4_MappingIndependence == SameRun(interpreter, twin)

\* main's WWWDWWWA(DOAS) has returned three characters of code point 3, as
\* +++>+++<[>.<-] did on the interpreter with the default symbols.
C4_Witness ==
    /\ interpreter.instructions_map = CustomMap
    /\ source = <<"W", "W", "W", "D", "W", "W", "W", "A",
                  "(", "D", "O", "A", "S", ")">>
    /\ interpreter.pc = "returned"
    /\ interpreter.result = Some(<<3, 3, 3>>)
    /\ twin.instructions_map = DefaultInstructions
    /\ twin.result = Some(<<3, 3, 3>>)

\* The fields every run starts from, the program, the result and the
\* configuration are those of a newly constructed interpreter.
SameAsFresh ==
    /\ interpreter.instruction_pointer = fresh.instruction_pointer
    /\ interpreter.instructions = fresh.instructions
    /\ interpreter.data_pointer = fresh.data_pointer
    /\ interpreter.data = fresh.data
    /\ interpreter.loop_stack = fresh.loop_stack
    /\ interpreter.output = fresh.output
    /\ interpreter.instructions_map = fresh.instructions_map
    /\ interpreter.result = fresh.result

\* C5: after any number of runs that returned, a run of a source that
\* loads goes, step by step, through the states of the same run on a newly
\* constructed interpreter with the same configuration, and ends with the
\* same result or the same panic; a source that does not load panics on
\* both alike.
C5_RunsIndependent ==
    /\ interpreter.pc = fresh.pc
    /\ interpreter.panic = fresh.panic
    /\ interpreter.result = fresh.result
    /\ interpreter.instructions_map = fresh.instructions_map
    /\ Len(interpreter.data) = Len(fresh.data)
    /\ interpreter.panic # "Invalid instruction" => SameAsFresh

\* A run of the empty source has returned the empty string on an
\* interpreter whose last run ended at a CloseLoop: that run left cells,
\* output and a loop stack behind, and none of it is there.
C5_Witness ==
    /\ interpreter.pc = "returned"
    /\ source = <<>>
    /\ interpreter.current_instruction = "CloseLoop"
    /\ interpreter.result = Some(<<>>)
    /\ interpreter.data = Zeros(Len(interpreter.data))
    /\ interpreter.loop_stack = <<>>

\* init() has decoded the source of the run: self.instructions is the
\* decoded program.
HasLoaded ==
    /\ interpreter.pc # "idle"
    /\ ~(interpreter.pc = "panicked" /\ interpreter.panic = "Invalid instruction")

Unbalanced(ops) == Count(ops, "CloseLoop") # Count(ops, "OpenLoop")

\* C6: a source that decodes to unequally many OpenLoop and CloseLoop is
\* never executed: its run is at the bracket count or has panicked with
\* "Unbalanced brackets", and then the tape is all zero, the data pointer
\* and the instruction pointer are 0, the loop stack and the output are
\* empty, read_line was not called and nothing was returned.
C6_UnbalancedBeforeExecution ==
    HasLoaded /\ Unbalanced(interpreter.instructions) =>
        /\ \/ interpreter.pc = "loaded"
           \/ /\ interpreter.pc = "panicked"
              /\ interpreter.panic = "Unbalanced brackets"
        /\ interpreter.data = Zeros(Len(interpreter.data))
        /\ interpreter.data_pointer = 0
        /\ interpreter.instruction_pointer = 0
        /\ interpreter.loop_stack = <<>>
        /\ interpreter.output = <<>>
        /\ interpreter.reads = 0
        /\ IsNone(interpreter.result)

\* run(".,[") has panicked with "Unbalanced brackets".
C6_Witness ==
    /\ source = <<".", ",", "[">>
    /\ interpreter.instructions_map = DefaultInstructions
    /\ interpreter.pc = "panicked"
    /\ interpreter.panic = "Unbalanced brackets"

Unbound(c) == c \notin DOMAIN interpreter.instructions_map

\* C7: a run of a source that holds a character without an entry in the
\* instruction set, at whatever position, has panicked with "Invalid
\* instruction": it never reaches the bracket count or the loop, calls
\* read_line never and returns nothing.
C7_InvalidInstructionAtLoad ==
    interpreter.pc # "idle" /\ (\E k \in 1..Len(source) : Unbound(source[k])) =>
        /\ interpreter.pc = "panicked"
        /\ interpreter.panic = "Invalid instruction"
        /\ interpreter.instruction_pointer = 0
        /\ interpreter.reads = 0
        /\ IsNone(interpreter.result)

\* run("+[?"), unbalanced and with an unbound last character, has panicked
\* with "Invalid instruction".
C7_Witness ==
    /\ source = <<"+", "[", Foreign>>
    /\ interpreter.pc = "panicked"
    /\ interpreter.panic = "Invalid instruction"

\* The data pointer is beyond every position a run can move it to without
\* wrapping: PointerInc moves it by one and a loop test panics beyond the
\* tape.
Wrapped(m) == m.data_pointer > Len(m.data) + Len(m.instructions)

\* C8: PointerDec executed with the data pointer at 0 panics, and the data
\* pointer never wraps to a huge value.
C8_PointerUnderflowFatal ==
    /\ [][At("PointerDec") /\ interpreter.data_pointer = 0 =>
            interpreter'.pc = "panicked"]_vars
    /\ [](~Wrapped(interpreter))

\* The current cell of an interpreter whose data pointer is in range.
Cell(m) == m.data[m.data_pointer + 1]

InRange(m) == m.data_pointer < Len(m.data)

\* C9: ByteInc on an in-range cell holding v leaves (v + 1) mod 256 and
\* ByteDec leaves (v - 1) mod 256, and the run goes on.
C9_CellArithmeticWraps ==
    [][/\ At("ByteInc") /\ InRange(interpreter) =>
            /\ interpreter'.pc = "running"
            /\ Cell(interpreter') = (Cell(interpreter) + 1) % U8Modulus
       /\ At("ByteDec") /\ InRange(interpreter) =>
            /\ interpreter'.pc = "running"
            /\ Cell(interpreter') =
                    (Cell(interpreter) + U8Modulus - 1) % U8Modulus]_vars

\* C10: an Output that does not panic appends the code point of the current
\* cell to the end of the output and changes nothing else of it, every
\* other instruction leaves the output as it is, and run() returns the
\* output as it stands.
C10_OutputIsEmissions ==
    [][/\ At("Output") /\ interpreter'.pc # "panicked" =>
            interpreter'.output = Append(interpreter.output, Cell(interpreter))
       /\ interpreter.pc = "running" /\ ~At("Output") =>
            interpreter'.output = interpreter.output
       /\ interpreter.pc = "running" /\ interpreter'.pc = "returned" =>
            interpreter'.result = Some(interpreter.output)]_vars

\* The Hello World run of main has returned "Hello World!\n".
C10_Witness ==
    /\ source = HelloWorld
    /\ interpreter.pc = "returned"
    /\ interpreter.result =
        Some(<<72, 101, 108, 108, 111, 32, 87, 111, 114, 108, 100, 33, 10>>)

\* What the step from an Input asks of a read_line result rd: a failed or
\* empty supply leaves the run at the same instruction with the tape and
\* the output as they were; a supplied character is written to the current
\* cell (as a u8) and the instruction pointer advances by one.
InputOutcome(rd) ==
    IF rd.kind = "Err" \/ rd.line = <<>>
    THEN /\ interpreter'.pc = "running"
         /\ interpreter'.instruction_pointer = interpreter.instruction_pointer
         /\ interpreter'.data = interpreter.data
         /\ interpreter'.output = interpreter.output
    ELSE /\ interpreter'.pc = "running"
         /\ interpreter'.instruction_pointer =
                interpreter.instruction_pointer + 1
         /\ interpreter'.data = Set(interpreter.data, interpreter.data_pointer,
                                    CharAsU8(rd.line[1]))
         /\ interpreter'.output = interpreter.output

\* C11: at an Input on an in-range cell, a read that fails or supplies no
\* character never aborts the run and changes neither the instruction
\* pointer, the tape nor the output; a read that supplies a character
\* writes the first one to the current cell and then advances by one.
C11_InputRetries ==
    [][At("Input") /\ InRange(interpreter) =>
            \A rd \in ReadResults :
                interpreter' = Step(interpreter, rd) => InputOutcome(rd)]_vars

\* C12: a run on the empty source never panics, leaves the tape all zero
\* at its configured length, both pointers at 0, the loop stack and the
\* output empty, and what it returns is the empty string.
C12_EmptySource ==
    source = <<>> /\ interpreter.pc # "idle" =>
        /\ interpreter.pc \in {"loaded", "running", "returned"}
        /\ interpreter.data = Zeros(TapeSize(config))
        /\ interpreter.data_pointer = 0
        /\ interpreter.instruction_pointer = 0
        /\ interpreter.loop_stack = <<>>
        /\ interpreter.output = <<>>
        /\ interpreter.pc = "returned" => interpreter.result = Some(<<>>)

\* A run on the empty source has returned "" on an interpreter with a
\* custom map that an earlier run had used.
C12_Witness ==
    /\ source = <<>>
    /\ interpreter.pc = "returned"
    /\ interpreter.result = Some(<<>>)
    /\ interpreter.instructions_map # DefaultInstructions
    /\ interpreter.current_instruction # fresh.current_instruction

\* C13: an OpenLoop on a zero cell, whatever the length of the loop stack,
\* pushes nothing and continues with the instruction after the CloseLoop
\* that structurally matches it.
C13_ZeroCellSkipsLoop ==
    [][/\ At("OpenLoop")
       /\ InRange(interpreter)
       /\ Cell(interpreter) = 0
       /\ ProperlyNested(interpreter.instructions)
       => /\ interpreter'.pc = "running"
          /\ interpreter'.loop_stack = interpreter.loop_stack
          /\ interpreter'.instruction_pointer =
                MatchClose(interpreter.instructions,
                           interpreter.instruction_pointer) + 1]_vars

\* Up to now the run went as the reference of standard loop semantics did.
AsReference ==
    /\ reference.ok
    /\ reference.instructions = interpreter.instructions
    /\ reference.instruction_pointer = interpreter.instruction_pointer
    /\ reference.data_pointer = interpreter.data_pointer
    /\ reference.data = interpreter.data

\* C14: at a CloseLoop on a nonzero cell of a properly nested program, in
\* a run that went by standard loop semantics so far, the top of the loop
\* stack is the position of the OpenLoop that structurally matches it.
C14_CloseLoopJumpsToMatch ==
    /\ At("CloseLoop")
    /\ InRange(interpreter)
    /\ Cell(interpreter) # 0
    /\ AsReference
    => Last(interpreter.loop_stack) =
            Some(StackItem(MatchOpen(interpreter.instructions,
                                     interpreter.instruction_pointer)))

\* C15: ByteInc or ByteDec with the data pointer at or past the end of the
\* tape does not end the run: the cell at that position then holds 1
\* (ByteInc) resp. 255 (ByteDec).
C15_OutOfRangeWriteTolerated ==
    [][/\ At("ByteInc") /\ ~InRange(interpreter) =>
            /\ interpreter'.pc = "running"
            /\ Get(interpreter'.data, interpreter.data_pointer) = Some(1)
       /\ At("ByteDec") /\ ~InRange(interpreter) =>
            /\ interpreter'.pc = "running"
            /\ Get(interpreter'.data, interpreter.data_pointer) =
                    Some(U8Modulus - 1)]_vars

\* The step ends the run with an index into the tape out of range.
TapeIndexPanic ==
    /\ interpreter.pc = "running"
    /\ ~InRange(interpreter)
    /\ interpreter'.pc = "panicked"
    /\ interpreter'.panic = "index out of bounds"

\* C16: PointerInc never ends the run, and a tape index out of range ends
\* it only at an Output, an Input, an OpenLoop or a CloseLoop.
C16_PointerIncNeverFails ==
    [][/\ At("PointerInc") => interpreter'.pc = "running"
       /\ TapeIndexPanic =>
            \/ At("Output")
            \/ At("Input")
            \/ At("OpenLoop")
            \/ At("CloseLoop")]_vars

\* C17: a program whose bracket counts are equal passes the bracket count
\* also when its brackets are misordered; a CloseLoop met with an empty loop
\* stack ends the run with a panic and no result when the cell is nonzero,
\* and only advances the instruction pointer by one when the cell is zero.
C17_MisorderedBrackets ==
    [][/\ interpreter.pc = "loaded" /\ ~Unbalanced(interpreter.instructions)
            => interpreter'.pc = "running"
       /\ At("CloseLoop") /\ InRange(interpreter)
            /\ interpreter.loop_stack = <<>>
            => IF Cell(interpreter) # 0
               THEN /\ interpreter'.pc = "panicked"
                    /\ interpreter'.panic =
                            "called Option::unwrap() on a None value"
                    /\ IsNone(interpreter'.result)
               ELSE interpreter' =
                        [interpreter EXCEPT
                            !.current_instruction = "CloseLoop",
                            !.instruction_pointer = @ + 1]]_vars

\* The run of +][ has passed the bracket count and has ended at its
\* CloseLoop with a panic.
C17_Witness ==
    /\ source = <<"+", "]", "[">>
    /\ interpreter.instructions_map = DefaultInstructions
    /\ interpreter.pc = "panicked"
    /\ interpreter.panic = "called Option::unwrap() on a None value"
    /\ interpreter.instruction_pointer = 1
    /\ IsNone(interpreter.result)

\* The positions on the loop stack, bottom first.
StackPositions(m) == [k \in 1..Len(m.loop_stack) |-> m.loop_stack[k].index]

\* C18: within a run the loop stack changes only at an OpenLoop on a
\* nonzero cell, which pushes the position of that OpenLoop; every other
\* step of the run leaves it as it is.  Its entries are positions of
\* OpenLoops of the program, and no position is on it twice (a loop that is
\* iterated is on the stack once).
C18_LoopStackFrame ==
    /\ [][interpreter.pc = "running" =>
            interpreter'.loop_stack =
                IF At("OpenLoop") /\ InRange(interpreter)
                    /\ Cell(interpreter) # 0
                THEN Append(interpreter.loop_stack,
                            StackItem(interpreter.instruction_pointer))
                ELSE interpreter.loop_stack]_vars
    /\ [](LET pos == StackPositions(interpreter)
          IN  /\ \A k \in 1..Len(pos) :
                    Get(interpreter.instructions, pos[k]) = Some("OpenLoop")
              /\ \A k \in 1..(Len(pos) - 1) : pos[k] < pos[k + 1])

\* The run of ++[-] has returned after two iterations of its loop, with
\* the loop on the stack once.
C18_Witness ==
    /\ interpreter.instructions = Clear(2)
    /\ interpreter.pc = "returned"
    /\ interpreter.loop_stack = <<StackItem(2)>>

\* C19: the instruction pointer is at every moment between 0 and the
\* length of the program; a step of the loop that does not end the run
\* leaves it one past a position of the program, and one past its old
\* value unless the step is a jump or a failed read; run() returns when
\* the instruction pointer is the length of the program, and only then.
C19_InstructionPointerRange ==
    /\ [](/\ interpreter.instruction_pointer \in
                0..Len(interpreter.instructions)
          /\ interpreter.pc = "returned" =>
                interpreter.instruction_pointer = Len(interpreter.instructions))
    /\ [][/\ Running(interpreter) /\ interpreter'.pc = "running" =>
                \/ interpreter'.instruction_pointer \in
                        1..Len(interpreter.instructions)
                \/ /\ At("Input")
                   /\ interpreter'.instruction_pointer =
                            interpreter.instruction_pointer
          /\ Running(interpreter) /\ interpreter'.pc = "running"
                /\ ~At("OpenLoop") /\ ~At("CloseLoop") /\ ~At("Input") =>
                interpreter'.instruction_pointer =
                    interpreter.instruction_pointer + 1
          /\ interpreter.pc = "running" =>
                (interpreter'.pc = "returned" <=> ~Running(interpreter))]_vars

\* The run of +[-][-] has returned: its second OpenLoop, on a zero cell,
\* went through the search of get_loop_end to the last CloseLoop.
C19_Witness ==
    /\ source = <<"+", "[", "-", "]", "[", "-", "]">>
    /\ interpreter.pc = "returned"
    /\ interpreter.instruction_pointer = 7
    /\ Len(interpreter.loop_stack) = 1

\* The tapes that differ from `data` at most in the cell at position dp.
SameButAt(data, other, dp) ==
    /\ Len(other) = Len(data)
    /\ \A k \in 1..Len(data) : k - 1 # dp => other[k] = data[k]

\* C20: the tape has at every moment the length it was configured with and
\* every cell holds a value in 0..255; ByteInc and ByteDec change at most
\* the cell at the data pointer, and every other step of a run but an Input
\* leaves the tape as it is.
C20_TapeLengthFixed ==
    /\ [](/\ Len(interpreter.data) = TapeSize(config)
          /\ \A k \in 1..Len(interpreter.data) :
                interpreter.data[k] \in 0..(U8Modulus - 1))
    /\ [][/\ At("ByteInc") \/ At("ByteDec") =>
                SameButAt(interpreter.data, interpreter'.data,
                          interpreter.data_pointer)
          /\ interpreter.pc = "running"
                /\ ~At("ByteInc") /\ ~At("ByteDec") /\ ~At("Input") =>
                interpreter'.data = interpreter.data]_vars

\* A run on a tape of MaxTape cells has returned with its data pointer
\* past the end of the tape, after a ByteDec that wrapped the first cell.
C20_Witness ==
    /\ interpreter.pc = "returned"
    /\ Len(interpreter.data) = MaxTape
    /\ interpreter.data[1] = U8Modulus - 1
    /\ interpreter.data_pointer >= Len(interpreter.data)
    /\ interpreter.data_pointer # UsizeMax

====
